---- MODULE Spec2Model ----
(***************************************************************************)
(* Model of mst.js: the DisjointSet (union-find) and MinHeap classes and   *)
(* the functions kruskalMST, buildAdj and primMST.                         *)
(*                                                                         *)
(* The classes are modelled as state machines (one action per method);     *)
(* the methods themselves are operators on the object's fields, so that    *)
(* kruskalMST and primMST, which create private instances, use the same    *)
(* definitions.  JavaScript arrays are 0-based; a JS array is a TLA+       *)
(* function on 0..len-1 where the code indexes by vertex (parent, rank,    *)
(* adj, visited) and a sequence where the code pushes and pops (data,      *)
(* mst, edges).  At(s, i) reads the 0-based index i of a sequence.         *)
(* Weights and totals are JavaScript numbers (doubles); they are held as   *)
(* two limbs so that additions round as the doubles do.                    *)
(***************************************************************************)
EXTENDS Integers, Sequences, FiniteSets, Bags, TLC

VARIABLES
  parent, rank,      \* DisjointSet fields
  dsLast,            \* the last DisjointSet call: arguments, result, fields before it
  data,              \* MinHeap field
  heapLast,          \* the last MinHeap call: argument, result, data before it
  n, edges,          \* the validated input handed to the MST functions
  kres,              \* the outcome of the last kruskalMST(n, edges) call
  start, pres        \* the last primMST(n, buildAdj(n, edges), start) call and its outcome

vars == <<parent, rank, dsLast, data, heapLast, n, edges, kres, start, pres>>

dsVars   == <<parent, rank, dsLast>>
heapVars == <<data, heapLast>>
mstVars  == <<n, edges, kres, start, pres>>

(***************************************************************************)
(* Bounds of the model.                                                    *)
(***************************************************************************)
MaxElems == 5      \* largest DisjointSet size explored
MaxHeap == 6       \* largest MinHeap size explored
MaxItemW == 2      \* heap items carry a weight in 0..MaxItemW
MaxN == 3          \* largest vertex count handed to the MST functions
MaxEdges == 4      \* longest edge list handed to the MST functions
MaxW == 2          \* edge weights are drawn from 0..MaxW
LargeN == 4        \* largest vertex count in the runs with large weights
LargeEdges == 3    \* longest edge list in the runs with large weights

(***************************************************************************)
(* JavaScript numbers.  main() hands over weights that are non-negative    *)
(* integers held in doubles, and the MST functions add them with +.  A     *)
(* number is the record [hi, lo] of value hi * LimbBase + lo, with         *)
(* 0 <= lo < LimbBase; doubles have a 53-bit significand.                  *)
(***************************************************************************)
LimbBase == 2 ^ 27

\* the hi limb of 2^53, the first double whose successor is 2 away
Pow53Hi == 2 ^ 26

\* the double of a small integer literal
num(k) == [hi |-> k \div LimbBase, lo |-> k % LimbBase]

\* 2^53 = 9007199254740992
TwoPow53 == [hi |-> Pow53Hi, lo |-> 0]

\* a < b and a <= b on doubles (the sign of a.w - b.w is exact)
numLess(a, b) == a.hi < b.hi \/ (a.hi = b.hi /\ a.lo < b.lo)

numLeq(a, b) == a.hi < b.hi \/ (a.hi = b.hi /\ a.lo <= b.lo)

\* the sum of two integers, exactly
exactAdd(a, b) ==
  [hi |-> a.hi + b.hi + ((a.lo + b.lo) \div LimbBase),
   lo |-> (a.lo + b.lo) % LimbBase]

\* the distance between neighbouring doubles at a value with this hi limb
RECURSIVE ulp(_)
ulp(h) == IF h < Pow53Hi THEN 1 ELSE 2 * ulp(h \div 2)

\* the double nearest to an integer, ties to the even significand
roundDouble(x) ==
  LET q    == ulp(x.hi)
      r    == x.lo % q
      down == [hi |-> x.hi, lo |-> x.lo - r]
      up   == exactAdd(down, num(q))
  IN  IF r = 0 THEN x
      ELSE IF 2 * r < q THEN down
      ELSE IF 2 * r > q THEN up
      ELSE IF (down.lo \div q) % 2 = 0 THEN down ELSE up

\* a + b on doubles: the exact sum, rounded
numAdd(a, b) == roundDouble(exactAdd(a, b))

(***************************************************************************)
(* DisjointSet                                                             *)
(***************************************************************************)

\* constructor(n): parent[i] = i, rank[i] = 0
DisjointSet(k) ==
  [parent |-> [i \in 0..(k - 1) |-> i], rank |-> [i \in 0..(k - 1) |-> 0]]

\* mutant of find: returns the root but never re-points a visited node
RECURSIVE findNoCompress(_, _)
findNoCompress(ds, x) ==
  IF ds.parent[x] # x
    THEN [ds |-> ds, ret |-> findNoCompress(ds, ds.parent[x]).ret]
    ELSE [ds |-> ds, ret |-> x]

\* mutant of find: returns the direct parent instead of recursing to the root
findShallow(ds, x) == [ds |-> ds, ret |-> ds.parent[x]]

\* find(x): recursive lookup; on the way back every visited node is
\* re-pointed to the value the recursive call returned.
RECURSIVE find(_, _)
find(ds, x) ==
  IF ds.parent[x] # x
    THEN LET r  == find(ds, ds.parent[x])
             d2 == [r.ds EXCEPT !.parent[x] = r.ret]
         IN  [ds |-> d2, ret |-> d2.parent[x]]
    ELSE [ds |-> ds, ret |-> ds.parent[x]]

\* mutant of union: always attaches rb under ra and never touches a rank
unionNoRank(ds, a, b) ==
  LET fa == find(ds, a)
      fb == find(fa.ds, b)
      ra == fa.ret
      rb == fb.ret
      d  == fb.ds
  IN  IF ra = rb THEN [ds |-> d, ret |-> FALSE]
      ELSE [ds |-> [d EXCEPT !.parent[rb] = ra], ret |-> TRUE]

\* mutant of union: reports a merge even when both are already in one set
unionAlwaysTrue(ds, a, b) ==
  LET fa == find(ds, a)
      fb == find(fa.ds, b)
      ra == fa.ret
      rb == fb.ret
      d  == fb.ds
  IN  IF ra = rb THEN [ds |-> d, ret |-> TRUE]
      ELSE IF d.rank[ra] < d.rank[rb]
        THEN [ds |-> [d EXCEPT !.parent[ra] = rb], ret |-> TRUE]
      ELSE IF d.rank[ra] > d.rank[rb]
        THEN [ds |-> [d EXCEPT !.parent[rb] = ra], ret |-> TRUE]
      ELSE [ds |-> [d EXCEPT !.parent[rb] = ra, !.rank[ra] = @ + 1], ret |-> TRUE]

\* union(a, b): both finds run (and compress) first, then union by rank
union(ds, a, b) ==
  LET fa == find(ds, a)
      fb == find(fa.ds, b)
      ra == fa.ret
      rb == fb.ret
      d  == fb.ds
  IN  IF ra = rb THEN [ds |-> d, ret |-> FALSE]
      ELSE IF d.rank[ra] < d.rank[rb]
        THEN [ds |-> [d EXCEPT !.parent[ra] = rb], ret |-> TRUE]
      ELSE IF d.rank[ra] > d.rank[rb]
        THEN [ds |-> [d EXCEPT !.parent[rb] = ra], ret |-> TRUE]
      ELSE [ds |-> [d EXCEPT !.parent[rb] = ra, !.rank[ra] = @ + 1], ret |-> TRUE]

\* the object's fields as one value
dsNow == [parent |-> parent, rank |-> rank]

Elems == DOMAIN parent

\* ds.find(x) called on the object
Find(x) ==
  LET r == find(dsNow, x)
  IN  /\ parent' = r.ds.parent
      /\ rank' = r.ds.rank
      /\ dsLast' = [op |-> "find", a |-> x, ret |-> r.ret, pre |-> dsNow]

\* ds.union(a, b) called on the object
Union(a, b) ==
  LET r == union(dsNow, a, b)
  IN  /\ parent' = r.ds.parent
      /\ rank' = r.ds.rank
      /\ dsLast' = [op |-> "union", a |-> a, b |-> b, ret |-> r.ret,
                    pre |-> dsNow]

IdleDS ==
  /\ parent = <<>>
  /\ rank = <<>>
  /\ dsLast = [op |-> "none"]

IdleHeap ==
  /\ data = <<>>
  /\ heapLast = [op |-> "none"]

IdleMST ==
  /\ n = 0
  /\ edges = <<>>
  /\ kres = [status |-> "none"]
  /\ start = 0
  /\ pres = [status |-> "none"]

\* new DisjointSet(k)
InitDS ==
  /\ \E k \in 1..MaxElems :
       /\ parent = DisjointSet(k).parent
       /\ rank = DisjointSet(k).rank
       /\ dsLast = [op |-> "new", pre |-> DisjointSet(k)]
  /\ IdleHeap
  /\ IdleMST

DoFind == \E x \in Elems : Find(x) /\ UNCHANGED <<heapVars, mstVars>>

DoUnion == \E a, b \in Elems : Union(a, b) /\ UNCHANGED <<heapVars, mstVars>>

NextDS == DoFind \/ DoUnion

SpecDS == InitDS /\ [][NextDS]_vars

(***************************************************************************)
(* Reference notions for the DisjointSet claims, defined on the parent     *)
(* mapping alone (no use of find).                                         *)
(***************************************************************************)

\* the vertex reached from x after k parent steps
RECURSIVE Walk(_, _, _)
Walk(p, x, k) == IF k = 0 THEN x ELSE Walk(p, p[x], k - 1)

\* where the parent path from x ends up after |p| steps
Root(p, x) == Walk(p, x, Cardinality(DOMAIN p))

\* every parent path reaches a self-parent vertex within |p| - 1 steps,
\* hence without revisiting a vertex
IsForest(p) ==
  \A x \in DOMAIN p :
    LET r == Walk(p, x, Cardinality(DOMAIN p) - 1) IN p[r] = r

\* the vertices on the parent path from x to its root, both included
PathOf(p, x) == {Walk(p, x, k) : k \in 0..Cardinality(DOMAIN p)}

SetOf(p, x) == {y \in DOMAIN p : Root(p, y) = Root(p, x)}

Sets(p) == {SetOf(p, x) : x \in DOMAIN p}

\* C6: union(a, b) returns true exactly when a and b were in different sets,
\* and then merges exactly those two sets; it returns false and leaves the
\* partition alone otherwise; repeating the same union right after a
\* successful one returns false.
C6_UnionMergesExactly ==
  dsLast.op = "union" =>
    LET pre == dsLast.pre.parent
        A   == SetOf(pre, dsLast.a)
        B   == SetOf(pre, dsLast.b)
    IN  /\ dsLast.ret = (A # B)
        /\ dsLast.ret => Sets(parent) = (Sets(pre) \ {A, B}) \cup {A \cup B}
        /\ ~dsLast.ret => Sets(parent) = Sets(pre)
        /\ dsLast.ret => union(dsNow, dsLast.a, dsLast.b).ret = FALSE

\* a successful union of two sets of two or more vertices each
C6_Witness ==
  /\ dsLast.op = "union"
  /\ dsLast.ret = TRUE
  /\ Cardinality(SetOf(dsLast.pre.parent, dsLast.a)) >= 2
  /\ Cardinality(SetOf(dsLast.pre.parent, dsLast.b)) >= 2
  /\ Cardinality(Sets(parent)) = Cardinality(Sets(dsLast.pre.parent)) - 1

\* C7: the parent relation is always a forest, and find(x) returns the root
\* that the parent path from x ends in.
C7_ForestAndFindRoot ==
  /\ IsForest(parent)
  /\ \A x \in Elems : find(dsNow, x).ret = Root(parent, x)
  /\ dsLast.op = "find" => dsLast.ret = Root(dsLast.pre.parent, dsLast.a)

\* a find on a vertex two parent steps away from its root
C7_Witness ==
  /\ dsLast.op = "find"
  /\ dsLast.pre.parent[dsLast.a] # dsLast.ret
  /\ dsLast.pre.parent[dsLast.pre.parent[dsLast.a]] = dsLast.ret
  /\ dsLast.pre.parent[dsLast.ret] = dsLast.ret

\* C8: find(x) re-points every vertex of the parent path from x to the root,
\* and changes no other parent, no rank and not the partition.
C8_FindCompressesOnly ==
  dsLast.op = "find" =>
    LET pre  == dsLast.pre
        r    == Root(pre.parent, dsLast.a)
        path == PathOf(pre.parent, dsLast.a)
    IN  /\ \A y \in path : parent[y] = r
        /\ \A y \in Elems \ path : parent[y] = pre.parent[y]
        /\ rank = pre.rank
        /\ Sets(parent) = Sets(pre.parent)

\* a find that re-pointed a vertex while another vertex was off the path
C8_Witness ==
  /\ dsLast.op = "find"
  /\ parent # dsLast.pre.parent
  /\ PathOf(dsLast.pre.parent, dsLast.a) # Elems

\* C9: a merging union attaches the root of smaller rank under the root of
\* larger rank without changing a rank; with equal ranks one root goes under
\* the other and the surviving root's rank grows by exactly 1; no other call
\* changes a rank.
C9_UnionByRank ==
  /\ dsLast.op = "find" => rank = dsLast.pre.rank
  /\ (dsLast.op = "union" /\ ~dsLast.ret) => rank = dsLast.pre.rank
  /\ (dsLast.op = "union" /\ dsLast.ret) =>
       LET pre == dsLast.pre
           ra  == Root(pre.parent, dsLast.a)
           rb  == Root(pre.parent, dsLast.b)
       IN  /\ pre.rank[ra] < pre.rank[rb] =>
                 /\ parent[ra] = rb /\ parent[rb] = rb
                 /\ rank = pre.rank
           /\ pre.rank[ra] > pre.rank[rb] =>
                 /\ parent[rb] = ra /\ parent[ra] = ra
                 /\ rank = pre.rank
           /\ pre.rank[ra] = pre.rank[rb] =>
                 \/ /\ parent[rb] = ra /\ parent[ra] = ra
                    /\ rank = [pre.rank EXCEPT ![ra] = @ + 1]
                 \/ /\ parent[ra] = rb /\ parent[rb] = rb
                    /\ rank = [pre.rank EXCEPT ![rb] = @ + 1]

\* a merging union whose first argument's root had the smaller rank
C9_Witness ==
  /\ dsLast.op = "union"
  /\ dsLast.ret = TRUE
  /\ LET ra == Root(dsLast.pre.parent, dsLast.a)
         rb == Root(dsLast.pre.parent, dsLast.b)
     IN  /\ dsLast.pre.rank[ra] < dsLast.pre.rank[rb]
         /\ parent[ra] = rb

(***************************************************************************)
(* MinHeap                                                                 *)
(***************************************************************************)

\* s[i] of a JavaScript array held as a sequence
At(s, i) == s[i + 1]

\* [s[i], s[j]] = [s[j], s[i]]
Swap(s, i, j) == [s EXCEPT ![i + 1] = s[j + 1], ![j + 1] = s[i + 1]]

\* what pop() returns on an empty heap
Null == [null |-> TRUE]

\* mutant of bubbleUp: `if` for `while`, at most one swap
bubbleUpOnce(d, i) ==
  IF i > 0
    THEN LET p == (i - 1) \div 2
         IN  IF numLeq(At(d, p).w, At(d, i).w) THEN d ELSE Swap(d, p, i)
    ELSE d

\* bubbleUp(i): swap with the parent while the parent is heavier
RECURSIVE bubbleUp(_, _)
bubbleUp(d, i) ==
  IF i > 0
    THEN LET p == (i - 1) \div 2
         IN  IF numLeq(At(d, p).w, At(d, i).w)
               THEN d
               ELSE bubbleUp(Swap(d, p, i), p)
    ELSE d

\* push(item)
push(d, item) == bubbleUp(Append(d, item), Len(d))

\* mutant of smallest: takes the left child whenever it is lighter than the
\* element, and looks at the right child only otherwise
smallestLeftFirst(d, i) ==
  LET len == Len(d)
      l   == 2 * i + 1
      r   == 2 * i + 2
  IN  IF l < len /\ numLess(At(d, l).w, At(d, i).w) THEN l
      ELSE IF r < len /\ numLess(At(d, r).w, At(d, i).w) THEN r
      ELSE i

\* one pass of the loop body of bubbleDown up to the choice of `smallest`
smallest(d, i) ==
  LET len == Len(d)
      l   == 2 * i + 1
      r   == 2 * i + 2
      s1  == IF l < len /\ numLess(At(d, l).w, At(d, i).w) THEN l ELSE i
  IN  IF r < len /\ numLess(At(d, r).w, At(d, s1).w) THEN r ELSE s1

\* bubbleDown(i) as the sequence of (data, i) at each evaluation of the loop
\* head; the last entry is where the loop breaks
RECURSIVE bubbleDownRun(_, _)
bubbleDownRun(d, i) ==
  LET s == smallest(d, i)
  IN  IF s = i
        THEN << [data |-> d, i |-> i] >>
        ELSE << [data |-> d, i |-> i] >> \o bubbleDownRun(Swap(d, i, s), s)

\* bubbleDown(i): the data when the loop breaks
bubbleDown(d, i) ==
  LET run == bubbleDownRun(d, i) IN run[Len(run)].data

\* the array pop() hands to bubbleDown(0): last element moved to the root
popMoved(d) == [SubSeq(d, 1, Len(d) - 1) EXCEPT ![1] = d[Len(d)]]

\* pop()
pop(d) ==
  IF Len(d) = 0
    THEN [data |-> d, ret |-> Null]
    ELSE LET top == At(d, 0)
         IN  IF Len(d) - 1 > 0
               THEN [data |-> bubbleDown(popMoved(d), 0), ret |-> top]
               ELSE [data |-> SubSeq(d, 1, Len(d) - 1), ret |-> top]

\* the items pushed in the heap runs: {w, u, v} as primMST builds them
Items == [w : {num(k) : k \in 0..MaxItemW}, u : {0}, v : {1, 2}]

\* heap.push(item) called on the object
Push(item) ==
  /\ Len(data) < MaxHeap
  /\ data' = push(data, item)
  /\ heapLast' = [op |-> "push", item |-> item, pre |-> data]

\* heap.pop() called on the object
Pop ==
  LET r == pop(data)
  IN  /\ data' = r.data
      /\ heapLast' = [op |-> "pop", ret |-> r.ret, pre |-> data]

\* new MinHeap()
InitHeap ==
  /\ data = <<>>
  /\ heapLast = [op |-> "new", pre |-> <<>>]
  /\ IdleDS
  /\ IdleMST

DoPush == \E item \in Items : Push(item) /\ UNCHANGED <<dsVars, mstVars>>

DoPop == Pop /\ UNCHANGED <<dsVars, mstVars>>

NextHeap == DoPush \/ DoPop

SpecHeap == InitHeap /\ [][NextHeap]_vars

(***************************************************************************)
(* Reference notions for the MinHeap claims.                               *)
(***************************************************************************)

Range(s) == {s[i] : i \in DOMAIN s}

\* how often each value occurs in a sequence
BagOfSeq(s) == [x \in Range(s) |-> Cardinality({i \in DOMAIN s : s[i] = x})]

\* every element is at least as heavy as its parent
HeapOrdered(d) ==
  \A i \in 1..(Len(d) - 1) : numLeq(At(d, (i - 1) \div 2).w, At(d, i).w)

\* the items returned by popping until the heap is empty
RECURSIVE drain(_)
drain(d) ==
  IF Len(d) = 0 THEN <<>>
  ELSE LET r == pop(d) IN << r.ret >> \o drain(r.data)

\* C5: pop returns Null on an empty heap and leaves it empty; otherwise it
\* removes one item of minimum weight and keeps all the others; popping a
\* heap empty yields each of its items once, weights in non-decreasing order.
C5_PopReturnsMinimum ==
  /\ heapLast.op = "pop" =>
       LET pre == heapLast.pre
       IN  IF Len(pre) = 0
             THEN heapLast.ret = Null /\ data = <<>>
             ELSE /\ heapLast.ret \in Range(pre)
                  /\ \A x \in Range(pre) : numLeq(heapLast.ret.w, x.w)
                  /\ BagOfSeq(Append(data, heapLast.ret)) = BagOfSeq(pre)
  /\ heapLast.op = "push" =>
       BagOfSeq(data) = BagOfSeq(Append(heapLast.pre, heapLast.item))
  /\ LET out == drain(data)
     IN  /\ BagOfSeq(out) = BagOfSeq(data)
         /\ \A i \in 1..(Len(out) - 1) : numLeq(out[i].w, out[i + 1].w)

\* a pop from a heap of four or more items of differing weights, whose
\* minimum had been pushed after a heavier item
C5_Witness ==
  /\ heapLast.op = "pop"
  /\ Len(heapLast.pre) >= 4
  /\ \E x \in Range(heapLast.pre) : numLess(heapLast.ret.w, x.w)
  /\ \E i \in 1..(Len(data) - 1) : numLess(data[i + 1].w, data[i].w)

\* the loop states of the bubbleDown that the last pop ran
LastPopRun == bubbleDownRun(popMoved(heapLast.pre), 0)

\* the children of index i that exist in d
Children(d, i) == {c \in {2 * i + 1, 2 * i + 2} : c < Len(d)}

\* C10 as stated: at a step where both children are lighter than the element,
\* the element is swapped with the left child.
C10_BothSmallerPrefersLeft ==
  (heapLast.op = "pop" /\ Len(heapLast.pre) >= 2) =>
    \A k \in 1..(Len(LastPopRun) - 1) :
      LET d == LastPopRun[k].data
          i == LastPopRun[k].i
      IN  (/\ Cardinality(Children(d, i)) = 2
           /\ \A c \in Children(d, i) : numLess(At(d, c).w, At(d, i).w))
          => LastPopRun[k + 1].i = 2 * i + 1

\* C10 amended: each step swaps the element with a lightest child, which is
\* lighter than the element; the right child is taken only when it is strictly
\* lighter than the left one (so the left child is preferred when the two
\* children weigh the same); the loop stops where no child is lighter, and
\* the heap is then ordered.
C10_SwapsWithLighterChild ==
  (heapLast.op = "pop" /\ Len(heapLast.pre) >= 2) =>
    /\ \A k \in 1..(Len(LastPopRun) - 1) :
         LET d == LastPopRun[k].data
             i == LastPopRun[k].i
             j == LastPopRun[k + 1].i
         IN  /\ j \in Children(d, i)
             /\ numLess(At(d, j).w, At(d, i).w)
             /\ \A c \in Children(d, i) : numLeq(At(d, j).w, At(d, c).w)
             /\ j = 2 * i + 2 => numLess(At(d, j).w, At(d, 2 * i + 1).w)
             /\ LastPopRun[k + 1].data = Swap(d, i, j)
    /\ LET last == LastPopRun[Len(LastPopRun)]
       IN  /\ \A c \in Children(last.data, last.i) :
                 numLeq(At(last.data, last.i).w, At(last.data, c).w)
           /\ data = last.data
    /\ HeapOrdered(data)

\* a pop whose bubbleDown found both children lighter than the moved element
\* and the two children of equal weight, and took the left one
C10_Witness ==
  /\ heapLast.op = "pop"
  /\ Len(heapLast.pre) >= 4
  /\ LET d == popMoved(heapLast.pre)
     IN  /\ numLess(At(d, 1).w, At(d, 0).w)
         /\ At(d, 2).w = At(d, 1).w
         /\ Len(LastPopRun) >= 2
         /\ LastPopRun[2].i = 1

(***************************************************************************)
(* kruskalMST                                                              *)
(***************************************************************************)

\* [...edges].sort((a, b) => a.w - b.w): ascending by weight, stable
RECURSIVE sortByWeight(_)
sortByWeight(es) ==
  IF Len(es) = 0 THEN << >>
  ELSE LET t == sortByWeight(SubSeq(es, 1, Len(es) - 1))
           e == es[Len(es)]
           k == Cardinality({i \in DOMAIN t : numLeq(t[i].w, e.w)})
       IN  SubSeq(t, 1, k) \o << e >> \o SubSeq(t, k + 1, Len(t))

\* the for loop over the sorted edges, from the i-th on, with its break
RECURSIVE kruskalLoop(_, _, _, _)
kruskalLoop(nn, sorted, i, st) ==
  IF i > Len(sorted) THEN st
  ELSE LET e == sorted[i]
           r == union(st.ds, e.u, e.v)
       IN  IF r.ret
             THEN LET st2 == [ds    |-> r.ds,
                              mst   |-> Append(st.mst, [u |-> e.u, v |-> e.v, w |-> e.w]),
                              total |-> numAdd(st.total, e.w)]
                  IN  IF Len(st2.mst) = nn - 1
                        THEN st2
                        ELSE kruskalLoop(nn, sorted, i + 1, st2)
             ELSE kruskalLoop(nn, sorted, i + 1, [st EXCEPT !.ds = r.ds])

\* kruskalMST up to the end of the loop: the edges selected and their total
kruskalRun(nn, es) ==
  kruskalLoop(nn, sortByWeight(es), 1,
              [ds |-> DisjointSet(nn), mst |-> << >>, total |-> num(0)])

NotConnected == "Graph is not connected. MST cannot be formed."

\* mutant of kruskalMST: returns whatever was selected, without the check
kruskalMSTNoCheck(nn, es) ==
  LET st == kruskalRun(nn, es)
  IN  [status |-> "ok", mst |-> st.mst, total |-> st.total]

\* kruskalMST(n, edges): a thrown Error is the outcome "error"
kruskalMST(nn, es) ==
  LET st == kruskalRun(nn, es)
  IN  IF Len(st.mst) # nn - 1
        THEN [status |-> "error", message |-> NotConnected]
        ELSE [status |-> "ok", mst |-> st.mst, total |-> st.total]

(***************************************************************************)
(* buildAdj and primMST                                                    *)
(***************************************************************************)

\* buildAdj(n, edges): each edge appends one entry to adj[u] and one to adj[v]
RECURSIVE buildAdj(_, _)
buildAdj(nn, es) ==
  IF Len(es) = 0 THEN [x \in 0..(nn - 1) |-> << >>]
  ELSE LET adj == buildAdj(nn, SubSeq(es, 1, Len(es) - 1))
           e   == es[Len(es)]
           a1  == [adj EXCEPT ![e.u] = Append(@, [to |-> e.v, w |-> e.w])]
       IN  [a1 EXCEPT ![e.v] = Append(@, [to |-> e.u, w |-> e.w])]

\* for (const e of adj[start]) heap.push({ w: e.w, u: start, v: e.to })
RECURSIVE pushIncident(_, _, _, _)
pushIncident(h, lst, i, from) ==
  IF i > Len(lst) THEN h
  ELSE pushIncident(push(h, [w |-> lst[i].w, u |-> from, v |-> lst[i].to]),
                    lst, i + 1, from)

\* for (const e of adj[v]) if (!visited[e.to]) heap.push({ w: e.w, u: v, v: e.to })
RECURSIVE pushUnvisited(_, _, _, _, _)
pushUnvisited(h, lst, i, from, vis) ==
  IF i > Len(lst) THEN h
  ELSE pushUnvisited(IF ~vis[lst[i].to]
                       THEN push(h, [w |-> lst[i].w, u |-> from, v |-> lst[i].to])
                       ELSE h,
                     lst, i + 1, from, vis)

\* mutant of primStep: no `if (visited[v]) continue`
primStepNoSkip(adj, st) ==
  LET r   == pop(st.heap)
      it  == r.ret
      vis == [st.visited EXCEPT ![it.v] = TRUE]
  IN  [visited |-> vis,
       heap    |-> pushUnvisited(r.data, adj[it.v], 1, it.v, vis),
       mst     |-> Append(st.mst, [u |-> it.u, v |-> it.v, w |-> it.w]),
       total   |-> numAdd(st.total, it.w)]

\* one pass of the while loop's body
primStep(adj, st) ==
  LET r  == pop(st.heap)
      it == r.ret
  IN  IF st.visited[it.v]
        THEN [st EXCEPT !.heap = r.data]
        ELSE LET vis == [st.visited EXCEPT ![it.v] = TRUE]
             IN  [visited |-> vis,
                  heap    |-> pushUnvisited(r.data, adj[it.v], 1, it.v, vis),
                  mst     |-> Append(st.mst, [u |-> it.u, v |-> it.v, w |-> it.w]),
                  total   |-> numAdd(st.total, it.w)]

\* while (heap.size > 0 && mst.length < n - 1)
RECURSIVE primLoop(_, _, _)
primLoop(nn, adj, st) ==
  IF Len(st.heap) > 0 /\ Len(st.mst) < nn - 1
    THEN primLoop(nn, adj, primStep(adj, st))
    ELSE st

\* primMST up to the end of the loop
primRun(nn, adj, s) ==
  primLoop(nn, adj,
           [visited |-> [x \in 0..(nn - 1) |-> x = s],
            heap    |-> pushIncident(<< >>, adj[s], 1, s),
            mst     |-> << >>,
            total   |-> num(0)])

\* primMST(n, adj, start): a thrown Error is the outcome "error"
primMST(nn, adj, s) ==
  LET st == primRun(nn, adj, s)
  IN  IF Len(st.mst) # nn - 1
        THEN [status |-> "error", message |-> NotConnected]
        ELSE [status |-> "ok", mst |-> st.mst, total |-> st.total]

(***************************************************************************)
(* The MST functions applied to every validated input within the bounds.   *)
(***************************************************************************)

\* the edges main() accepts for n vertices: 0 <= u, v < n, u # v, w >= 0
EdgeSet(nn, W) ==
  {e \in [u : 0..(nn - 1), v : 0..(nn - 1), w : W] : e.u # e.v}

\* the weights of the runs with small weights
Weights == {num(k) : k \in 0..MaxW}

EdgeLists(nn) == UNION {[1..k -> EdgeSet(nn, Weights)] : k \in 0..MaxEdges}

InitMST ==
  /\ n \in 1..MaxN
  /\ edges \in EdgeLists(n)
  /\ kres = [status |-> "none"]
  /\ start = 0
  /\ pres = [status |-> "none"]
  /\ IdleDS
  /\ IdleHeap

\* result = kruskalMST(n, edges); the call is a function of (n, edges), so
\* calling it again on the same input leads to no new state
RunKruskal ==
  /\ kres.status = "none"
  /\ kres' = kruskalMST(n, edges)
  /\ UNCHANGED <<n, edges, start, pres, dsVars, heapVars>>

\* result = primMST(n, buildAdj(n, edges), s), for any start vertex s; a
\* second call with another s leads to a state the first call reaches too
RunPrim ==
  \E s \in 0..(n - 1) :
    /\ pres.status = "none"
    /\ start' = s
    /\ pres' = primMST(n, buildAdj(n, edges), s)
    /\ UNCHANGED <<n, edges, kres, dsVars, heapVars>>

NextMST == RunKruskal \/ RunPrim

SpecMST == InitMST /\ [][NextMST]_vars

\* the weights of the runs with large weights: main() accepts
\* 9007199254740992, which parseInt reads exactly
LargeWeights == {num(1), TwoPow53}

LargeEdgeLists(nn) ==
  UNION {[1..k -> EdgeSet(nn, LargeWeights)] : k \in 0..LargeEdges}

InitMSTLarge ==
  /\ n \in 1..LargeN
  /\ edges \in LargeEdgeLists(n)
  /\ kres = [status |-> "none"]
  /\ start = 0
  /\ pres = [status |-> "none"]
  /\ IdleDS
  /\ IdleHeap

SpecMSTLarge == InitMSTLarge /\ [][NextMST]_vars

(***************************************************************************)
(* Reference notions for the MST claims, defined on the input graph alone. *)
(***************************************************************************)

\* the vertices reachable from the set S over the edges in E, either direction
RECURSIVE Grow(_, _)
Grow(E, S) ==
  LET T == S \cup {e.v : e \in {x \in E : x.u \in S}}
             \cup {e.u : e \in {x \in E : x.v \in S}}
  IN  IF T = S THEN S ELSE Grow(E, T)

ReachFrom(E, s) == Grow(E, {s})

\* all nn vertices are reachable from one another over the edges in E
ConnectedBy(nn, E) == \A x \in 0..(nn - 1) : ReachFrom(E, x) = 0..(nn - 1)

Connected(nn, es) == ConnectedBy(nn, Range(es))

\* a sequence of edges without a cycle: every edge joins two components
Acyclic(nn, es) ==
  Cardinality({ReachFrom(Range(es), x) : x \in 0..(nn - 1)}) = nn - Len(es)

IsSpanningTree(nn, es) ==
  /\ Len(es) = nn - 1
  /\ Acyclic(nn, es)
  /\ Connected(nn, es)

\* the same undirected edge: (u, v, w) and (v, u, w) are equivalent
SameEdge(a, b) == a.w = b.w /\ {a.u, a.v} = {b.u, b.v}

RECURSIVE SumW(_)
SumW(es) == IF Len(es) = 0 THEN num(0) ELSE exactAdd(es[1].w, SumW(Tail(es)))

RECURSIVE SumAt(_, _)
SumAt(es, T) ==
  IF T = {} THEN num(0)
  ELSE LET i == CHOOSE j \in T : TRUE IN exactAdd(es[i].w, SumAt(es, T \ {i}))

\* the total weights of all spanning trees of the input, a spanning tree
\* being nn - 1 of the input's edges that connect all nn vertices
TreeWeights(nn, es) ==
  {SumAt(es, T) : T \in {X \in SUBSET (DOMAIN es) :
                            /\ Cardinality(X) = nn - 1
                            /\ ConnectedBy(nn, {es[i] : i \in X})}}

\* C1: on a connected graph kruskalMST and primMST, whatever its start
\* vertex, both return, and with the same total weight.  The totals are
\* sums of doubles taken in different orders (ascending weight, discovery
\* order), so this fails once a partial sum passes 2^53.
C1_SameTotalWeight ==
  (Connected(n, edges) /\ kres.status # "none" /\ pres.status # "none") =>
    /\ kres.status = "ok"
    /\ pres.status = "ok"
    /\ kres.total = pres.total

\* C2: on a connected graph the edge sequence returned by kruskalMST and by
\* primMST has n - 1 entries, each an edge of the input (kruskalMST returns
\* the input's records, primMST the edge with u the endpoint already in the
\* tree), and the entries form a spanning tree.
C2_ReturnsSpanningTree ==
  Connected(n, edges) =>
    /\ kres.status # "none" =>
         /\ kres.status = "ok"
         /\ Len(kres.mst) = n - 1
         /\ \A i \in DOMAIN kres.mst : kres.mst[i] \in Range(edges)
         /\ IsSpanningTree(n, kres.mst)
    /\ pres.status # "none" =>
         /\ pres.status = "ok"
         /\ Len(pres.mst) = n - 1
         /\ \A i \in DOMAIN pres.mst :
              \E e \in Range(edges) : SameEdge(pres.mst[i], e)
         /\ IsSpanningTree(n, pres.mst)

\* both functions have returned on a connected graph that has a cycle, and
\* primMST returned an edge in the direction opposite to the input's
C2_Witness ==
  /\ n >= 3
  /\ Len(edges) > n - 1
  /\ Connected(n, edges)
  /\ kres.status = "ok"
  /\ pres.status = "ok"
  /\ \E i \in DOMAIN pres.mst : pres.mst[i] \notin Range(edges)

\* C3: on a connected graph kruskalMST returns the sum of the weights of the
\* edges it selected, and no spanning tree of the input weighs less; the
\* inputs include every order of every edge list, hence every order in which
\* the stable sort can leave edges of equal weight.  The sums here are exact
\* integers, the returned total a rounded double, so this fails once the
\* sum is no double.
C3_KruskalTotalIsMinimum ==
  (Connected(n, edges) /\ kres.status # "none") =>
    /\ kres.status = "ok"
    /\ kres.total = SumW(kres.mst)
    /\ kres.total \in TreeWeights(n, edges)
    /\ \A t \in TreeWeights(n, edges) : numLeq(kres.total, t)

\* C4: kruskalMST throws exactly when the graph is not connected, primMST
\* exactly when some vertex is not reachable from start; each throws exactly
\* when its loop selected fewer than n - 1 edges; the outcome is then the
\* 'not connected' error alone, with no edge list and no total.
C4_ThrowsWhenDisconnected ==
  /\ kres.status # "none" =>
       /\ (kres.status = "error") <=> ~Connected(n, edges)
       /\ (kres.status = "error") <=> (Len(kruskalRun(n, edges).mst) < n - 1)
       /\ kres.status = "error" =>
            kres = [status |-> "error", message |-> NotConnected]
       /\ kres.status \in {"ok", "error"}
  /\ pres.status # "none" =>
       /\ (pres.status = "error") <=> (ReachFrom(Range(edges), start) # 0..(n - 1))
       /\ (pres.status = "error") <=>
            (Len(primRun(n, buildAdj(n, edges), start).mst) < n - 1)
       /\ pres.status = "error" =>
            pres = [status |-> "error", message |-> NotConnected]
       /\ pres.status \in {"ok", "error"}

\* both functions have thrown on a graph with edges, after each had
\* selected at least one edge
C4_Witness ==
  /\ ~Connected(n, edges)
  /\ kres.status = "error"
  /\ pres.status = "error"
  /\ Len(kruskalRun(n, edges).mst) >= 1
  /\ Len(primRun(n, buildAdj(n, edges), start).mst) >= 1

====
